---- MODULE Spec2Model ----
(***************************************************************************)
(* Model of idf::InputDevice (models/hardwareInterface/src/InputDevice.cpp) *)
(*                                                                         *)
(* Two InputDevice instances are modelled so that the behaviour of         *)
(* update() on two devices can be compared.  Each instance carries the     *)
(* three fields the constructor initialises.  Besides the fields, the      *)
(* model keeps, per instance, a record of the most recent operation        *)
(* applied to it and counts of the update() calls made and failed.         *)
(***************************************************************************)
EXTENDS Integers, Sequences, FiniteSets, TLC

\* ------------------------------------------------------------------ bounds
\* largest value written to the delay field
MaxDelay == 1
\* largest number of update() calls counted per device
MaxCalls == 2

\* the two instances
Devices == {"dev1", "dev2"}

\* ------------------------------------------------------- program constants
\* value of __LINE__ in InputDevice::update
LINE == 20

\* expansions of __FILE__: the path the translation unit was compiled under
Files == { <<"I","n","p","u","t","D","e","v","i","c","e",".","c","p","p">>,
           <<"s","r","c","/","I","n","p","u","t","D","e","v","i","c","e",".","c","p","p">> }

\* the string literal streamed after __LINE__
NotOpenText == <<" ","D","e","v","i","c","e"," ","i","s"," ","n","o","t"," ","o","p","e","n",".">>

\* ------------------------------------------------------------------ state
VARIABLES dev, last, nUpdate, nFailed, file

vars == <<dev, last, nUpdate, nFailed, file>>

\* -------------------------------------------------- std::ostream << int
DigitChars == <<"0","1","2","3","4","5","6","7","8","9">>

RECURSIVE StreamInt(_)
StreamInt(n) ==
    IF n < 10 THEN <<DigitChars[n + 1]>>
    ELSE StreamInt(n \div 10) \o <<DigitChars[(n % 10) + 1]>>

\* ------------------------------------------------------------ constructor
InputDevice_opened == [delay |-> 0, mOpen |-> TRUE, enabled |-> TRUE]

InputDevice_swappedInit == [delay |-> 1, mOpen |-> FALSE, enabled |-> FALSE]

InputDevice == [delay |-> 0, mOpen |-> FALSE, enabled |-> TRUE]

\* ---------------------------------------------------------------- isOpen
\* isOpen() const: the value returned and the object after the call
isOpen_body_enabled(self) == [ret |-> self.enabled, self |-> self]

isOpen_body(self) == [ret |-> self.mOpen, self |-> self]

\* ---------------------------------------------------------------- update
\* update(): how the call ends, what() of the exception, the object after
update_body_noCheck(self, f) ==
    [outcome |-> "returned", msg |-> <<>>, self |-> self]

update_body_checksEnabled(self, f) ==
    IF ~self.mOpen \/ ~self.enabled
    THEN [outcome |-> "IOException",
          msg     |-> f \o <<":">> \o StreamInt(LINE) \o NotOpenText,
          self    |-> self]
    ELSE [outcome |-> "returned", msg |-> <<>>, self |-> self]

update_body_skipsWhenDisabled(self, f) ==
    IF ~self.enabled
    THEN [outcome |-> "returned", msg |-> <<>>, self |-> self]
    ELSE IF ~self.mOpen
    THEN [outcome |-> "IOException",
          msg     |-> f \o <<":">> \o StreamInt(LINE) \o NotOpenText,
          self    |-> self]
    ELSE [outcome |-> "returned", msg |-> <<>>, self |-> self]

update_body_noLocation(self, f) ==
    IF ~self.mOpen
    THEN [outcome |-> "IOException",
          msg     |-> Tail(NotOpenText),
          self    |-> self]
    ELSE [outcome |-> "returned", msg |-> <<>>, self |-> self]

update_body_clearsDelay(self, f) ==
    IF ~self.mOpen
    THEN [outcome |-> "IOException",
          msg     |-> f \o <<":">> \o StreamInt(LINE) \o NotOpenText,
          self    |-> self]
    ELSE [outcome |-> "returned", msg |-> <<>>,
          self |-> [self EXCEPT !.delay = 0, !.enabled = FALSE]]

update_body_opensOnFailure(self, f) ==
    IF ~self.mOpen
    THEN [outcome |-> "IOException",
          msg     |-> f \o <<":">> \o StreamInt(LINE) \o NotOpenText,
          self    |-> [self EXCEPT !.mOpen = TRUE]]
    ELSE [outcome |-> "returned", msg |-> <<>>, self |-> self]

update_body(self, f) ==
    IF ~self.mOpen
    THEN [outcome |-> "IOException",
          msg     |-> f \o <<":">> \o StreamInt(LINE) \o NotOpenText,
          self    |-> self]
    ELSE [outcome |-> "returned", msg |-> <<>>, self |-> self]

\* ------------------------------------------- record of the last operation
\* op: "construct", "write" (a field was assigned from outside the two
\* methods), "isOpen" or "update"; first: the call was the first operation
\* on the object after its construction; pre: the object before the call.
NoCall(o) ==
    [op |-> o, first |-> FALSE, pre |-> InputDevice,
     outcome |-> "none", ret |-> FALSE, msg |-> <<>>]

Init ==
    /\ dev = [d \in Devices |-> InputDevice]
    /\ last = [d \in Devices |-> NoCall("construct")]
    /\ nUpdate = [d \in Devices |-> 0]
    /\ nFailed = [d \in Devices |-> 0]
    /\ file \in Files

\* ------------------------------------------------------------- operations
isOpen(d) ==
    LET r == isOpen_body(dev[d]) IN
    /\ dev' = [dev EXCEPT ![d] = r.self]
    /\ last' = [last EXCEPT ![d] =
                  [op |-> "isOpen", first |-> (last[d].op = "construct"),
                   pre |-> dev[d], outcome |-> "returned", ret |-> r.ret,
                   msg |-> <<>>]]
    /\ UNCHANGED <<nUpdate, nFailed, file>>

update(d) ==
    LET r == update_body(dev[d], file) IN
    /\ nUpdate[d] < MaxCalls
    /\ dev' = [dev EXCEPT ![d] = r.self]
    /\ last' = [last EXCEPT ![d] =
                  [op |-> "update", first |-> (last[d].op = "construct"),
                   pre |-> dev[d], outcome |-> r.outcome, ret |-> FALSE,
                   msg |-> r.msg]]
    /\ nUpdate' = [nUpdate EXCEPT ![d] = @ + 1]
    /\ nFailed' = [nFailed EXCEPT ![d] =
                     IF r.outcome = "IOException" THEN @ + 1 ELSE @]
    /\ UNCHANGED file

\* A derived class assigns the protected open flag.
setOpen(d, b) ==
    /\ dev' = [dev EXCEPT ![d].mOpen = b]
    /\ last' = [last EXCEPT ![d] = NoCall("write")]
    /\ UNCHANGED <<nUpdate, nFailed, file>>

\* Direct assignment to the delay field.
setDelay(d, v) ==
    /\ dev' = [dev EXCEPT ![d].delay = v]
    /\ last' = [last EXCEPT ![d] = NoCall("write")]
    /\ UNCHANGED <<nUpdate, nFailed, file>>

\* Direct assignment to the enabled field.
setEnabled(d, b) ==
    /\ dev' = [dev EXCEPT ![d].enabled = b]
    /\ last' = [last EXCEPT ![d] = NoCall("write")]
    /\ UNCHANGED <<nUpdate, nFailed, file>>

IsOpenStep == \E d \in Devices : isOpen(d)

UpdateStep == \E d \in Devices : update(d)

SetOpenStep == \E d \in Devices, b \in BOOLEAN : setOpen(d, b)

SetDelayStep == \E d \in Devices, v \in 0..MaxDelay : setDelay(d, v)

SetEnabledStep == \E d \in Devices, b \in BOOLEAN : setEnabled(d, b)

Next ==
    \/ IsOpenStep
    \/ UpdateStep
    \/ SetOpenStep
    \/ SetDelayStep
    \/ SetEnabledStep

Spec == Init /\ [][Next]_vars

\* Only the two methods InputDevice.cpp defines are ever applied.
NextBase ==
    \/ IsOpenStep
    \/ UpdateStep

SpecBase == Init /\ [][NextBase]_vars

TypeOK ==
    /\ \A d \in Devices :
         /\ dev[d].delay \in 0..MaxDelay
         /\ dev[d].mOpen \in BOOLEAN
         /\ dev[d].enabled \in BOOLEAN
         /\ last[d].op \in {"construct", "write", "isOpen", "update"}
         /\ nUpdate[d] \in 0..MaxCalls
         /\ nFailed[d] \in 0..nUpdate[d]
    /\ file \in Files

\* ------------------------------------------------------ helpers for claims
IsUpdate(d) == last[d].op = "update"

IsIsOpen(d) == last[d].op = "isOpen"

Failed(d) == last[d].outcome = "IOException"

Completed(d) == last[d].outcome = "returned"

\* the text a caller looks for in what()
DiagnosticText == <<"D","e","v","i","c","e"," ","i","s"," ","n","o","t"," ","o","p","e","n">>

IsDigits(s) == Len(s) > 0 /\ \A k \in 1..Len(s) : \E n \in 1..10 : DigitChars[n] = s[k]

DigitValue(c) == (CHOOSE n \in 1..10 : DigitChars[n] = c) - 1

RECURSIVE ParseInt(_)
ParseInt(s) ==
    IF Len(s) = 0 THEN 0
    ELSE 10 * ParseInt(SubSeq(s, 1, Len(s) - 1)) + DigitValue(s[Len(s)])

\* m has the diagnostic text at position i and, right before it, the
\* location: file name f, ':', the decimal line number n, a space
LocatedAt(m, i, f, n) ==
    /\ i + Len(DiagnosticText) - 1 <= Len(m)
    /\ SubSeq(m, i, i + Len(DiagnosticText) - 1) = DiagnosticText
    /\ i > Len(f) + 3
    /\ SubSeq(m, 1, Len(f)) = f
    /\ m[Len(f) + 1] = ":"
    /\ IsDigits(SubSeq(m, Len(f) + 2, i - 2))
    /\ ParseInt(SubSeq(m, Len(f) + 2, i - 2)) = n
    /\ m[i - 1] = " "

\* ------------------------------------------------------------------ claims

\* C1: update() on a device whose open flag is false, whatever delay and
\* enabled are, ends in the IOException "device not open" outcome, never
\* completes normally, and leaves delay, the open flag and enabled as they
\* were before the call.
C1_UpdateClosedFails ==
    \A d \in Devices :
        (IsUpdate(d) /\ ~last[d].pre.mOpen) =>
            /\ Failed(d)
            /\ ~Completed(d)
            /\ dev[d] = last[d].pre

C1_Witness ==
    \E d \in Devices :
        /\ IsUpdate(d)
        /\ ~last[d].pre.mOpen
        /\ last[d].pre.delay > 0
        /\ ~last[d].pre.enabled
        /\ Failed(d)

\* C2: update() on a device whose open flag is true (set by a derived
\* class), whatever delay and enabled are, completes normally and does not
\* produce the "device not open" error.
C2_UpdateOpenCompletes ==
    \A d \in Devices :
        (IsUpdate(d) /\ last[d].pre.mOpen) =>
            /\ Completed(d)
            /\ ~Failed(d)
            /\ last[d].msg = <<>>

C2_Witness ==
    \E d \in Devices :
        /\ IsUpdate(d)
        /\ last[d].pre.mOpen
        /\ ~last[d].pre.enabled
        /\ last[d].pre.delay > 0
        /\ Completed(d)

\* C3: immediately after construction, with no other operation applied,
\* isOpen() returns false.
C3_FreshNotOpen ==
    \A d \in Devices :
        /\ (last[d].op = "construct") => ~dev[d].mOpen
        /\ (IsIsOpen(d) /\ last[d].first) => (last[d].ret = FALSE)

C3_Witness ==
    \E d \in Devices :
        /\ IsIsOpen(d)
        /\ last[d].first
        /\ last[d].ret = FALSE
        /\ Completed(d)

\* C4: immediately after construction, with no other operation applied,
\* enabled is true and delay is 0.
C4_FreshEnabledNoDelay ==
    \A d \in Devices :
        /\ (last[d].op = "construct") =>
               (dev[d].enabled = TRUE /\ dev[d].delay = 0)
        /\ (last[d].op \in {"isOpen", "update"} /\ last[d].first) =>
               (last[d].pre.enabled = TRUE /\ last[d].pre.delay = 0)

C4_Witness ==
    \E d, e \in Devices :
        /\ last[d].op = "construct"
        /\ dev[d].enabled
        /\ dev[d].delay = 0
        /\ last[e].op = "update"
        /\ last[e].first
        /\ last[e].pre.enabled
        /\ last[e].pre.delay = 0

\* C5: in every device state isOpen() returns exactly the current value of
\* the open flag, never ends in an error, and leaves delay, the open flag
\* and enabled unchanged.
C5_IsOpenPure ==
    \A d \in Devices :
        IsIsOpen(d) =>
            /\ last[d].ret = last[d].pre.mOpen
            /\ Completed(d)
            /\ dev[d] = last[d].pre

C5_Witness ==
    \E d, e \in Devices :
        /\ IsIsOpen(d) /\ last[d].pre.mOpen /\ last[d].ret = TRUE
        /\ ~last[d].pre.enabled
        /\ IsIsOpen(e) /\ ~last[e].pre.mOpen /\ last[e].ret = FALSE
        /\ last[e].pre.enabled

\* C6: whenever update() fails because the device is not open, the message
\* of the error contains the text "Device is not open", preceded by the
\* source location: the file name, ':' and the line number.
C6_MessageHasLocationAndText ==
    \A d \in Devices :
        (IsUpdate(d) /\ Failed(d)) =>
            \E i \in 1..Len(last[d].msg) :
                LocatedAt(last[d].msg, i, file, LINE)

C6_Witness ==
    \E d \in Devices :
        /\ IsUpdate(d)
        /\ Failed(d)
        /\ Len(last[d].msg) > Len(DiagnosticText)
        /\ last[d].msg[Len(file) + 1] = ":"

\* C7: update() on a device whose open flag is true does nothing in the
\* base implementation: delay, the open flag and enabled are the same after
\* the call as before it.
C7_UpdateOpenNoEffect ==
    \A d \in Devices :
        (IsUpdate(d) /\ last[d].pre.mOpen) =>
            /\ dev[d].delay = last[d].pre.delay
            /\ dev[d].mOpen = last[d].pre.mOpen
            /\ dev[d].enabled = last[d].pre.enabled

C7_Witness ==
    \E d \in Devices :
        /\ IsUpdate(d)
        /\ last[d].pre.mOpen
        /\ last[d].pre.enabled
        /\ last[d].pre.delay > 0
        /\ dev[d] = last[d].pre

\* C8: the outcome of update() depends on the open flag alone: two devices
\* with the same open flag get the same outcome whatever their enabled and
\* delay are, and update() fails if and only if the open flag is false.
C8_OutcomeDependsOnOpenOnly ==
    /\ \A d, e \in Devices :
          (IsUpdate(d) /\ IsUpdate(e) /\ last[d].pre.mOpen = last[e].pre.mOpen)
              => last[d].outcome = last[e].outcome
    /\ \A d \in Devices :
          IsUpdate(d) => (Failed(d) <=> ~last[d].pre.mOpen)

C8_Witness ==
    \E d, e \in Devices :
        /\ IsUpdate(d) /\ IsUpdate(e)
        /\ last[d].pre.mOpen /\ last[e].pre.mOpen
        /\ last[d].pre.enabled /\ ~last[e].pre.enabled
        /\ last[d].pre.delay # last[e].pre.delay
        /\ Completed(d) /\ Completed(e)

\* C9: from a freshly constructed device, after any sequence of isOpen()
\* and update() calls, the open flag is still false, isOpen() still returns
\* false and every update() call made so far has failed.
C9_BaseNeverOpens ==
    \A d \in Devices :
        /\ ~dev[d].mOpen
        /\ IsIsOpen(d) => (last[d].ret = FALSE)
        /\ IsUpdate(d) => Failed(d)
        /\ nFailed[d] = nUpdate[d]

C9_Witness ==
    \E d \in Devices :
        /\ nUpdate[d] >= 2
        /\ nFailed[d] = nUpdate[d]
        /\ IsIsOpen(d)
        /\ last[d].ret = FALSE
        /\ ~dev[d].mOpen
====
